---- MODULE Spec2Model ----
(***************************************************************************)
(* GPUQT: the matrix-free sparse Hamiltonian operator and its Chebyshev    *)
(* recursion kernels (hamiltonian.cu), the state vectors they act on       *)
(* (vector.h) and the device memory both live in.                          *)
(*                                                                         *)
(* A value of the build-wide type `real` is an exact rational <<num, den>> *)
(* in lowest terms with den > 0.  The inputs are small integers, so every  *)
(* sum and product is exact in the floating-point build as well; only the  *)
(* division by energy_max can round there, and it is exact whenever        *)
(* energy_max is a power of two.                                           *)
(***************************************************************************)
EXTENDS Integers, Sequences, FiniteSets, TLC

(* ------------------------------ bounds -------------------------------- *)

\* largest number_of_atoms of a lattice
MaxAtoms == 3
\* neighbour slots per site (model.max_neighbor)
MaxNeighbor == 2
\* largest seed of the input data sets (seeds start at 0)
MaxSeed == 2
\* largest label handed to chebyshev_2 / chebyshev_2x (labels start at 0)
MaxLabel == 5
\* highest Chebyshev order the kernel-polynomial driver produces
MaxOrder == 5

\* threads per block of a dispatch: common.h sets it; scaled down so that a
\* small lattice spans two blocks and leaves a thread past its end
BLOCK_SIZE == 2

(* --------------------------- real arithmetic -------------------------- *)

Abs(x) == IF x < 0 THEN -x ELSE x

RECURSIVE GCD(_, _)
GCD(x, y) == IF y = 0 THEN x ELSE GCD(y, x % y)

\* the rational n/d in lowest terms
Norm(n, d) ==
    LET g == GCD(Abs(n), Abs(d))
        s == IF d < 0 THEN -1 ELSE 1
    IN  <<(s * n) \div g, (s * d) \div g>>

R(i) == <<i, 1>>
R0 == R(0)
RAdd(x, y) == Norm(x[1] * y[2] + y[1] * x[2], x[2] * y[2])
RSub(x, y) == Norm(x[1] * y[2] - y[1] * x[2], x[2] * y[2])
RMul(x, y) == Norm(x[1] * y[1], x[2] * y[2])
RDiv(x, y) == Norm(x[1] * y[2], x[2] * y[1])
RNeg(x) == <<-x[1], x[2]>>

(* ------------------------------- state -------------------------------- *)

VARIABLES
    dev,        \* device memory: pointer -> array (index from 0)
    H,          \* the Hamiltonian object the kernels are launched from
    vec,        \* the Vector objects: name -> [real_part, imag_part] pointers
    launch,     \* the kernel dispatch in flight, or NoLaunch
    pc,         \* per thread of the dispatch: "ready", "loaded", "done"
    tmp,        \* per thread: its local temp_real, temp_imag, ...
    pre,        \* device memory as it was when the dispatch was launched
    rd,         \* per thread: the device cells it has read
    wr,         \* per thread: the device cells it has written
    launches,   \* dispatches issued so far
    host,       \* position of the host driver
    order,      \* highest Chebyshev order the driver has produced
    allocated,  \* device pointers currently allocated
    freeCalls,  \* pointer -> number of cudaFree calls that named it
    obj         \* the aliasing Hamiltonian objects: id -> its fields
vars == <<dev, H, vec, launch, pc, tmp, pre, rd, wr, launches, host, order,
          allocated, freeCalls, obj>>

kernelVars == <<dev, H, vec, launch, pc, tmp, pre, rd, wr, launches>>
memVars == <<allocated, freeCalls, obj>>

NoLaunch == [kernel |-> "none"]

VecNames == {"state_0", "state_1", "state_2", "state",
             "state_0x", "state_1x", "state_2x"}

\* position of a vector in the order its buffers are allocated
VecIndex(v) ==
    CASE v = "state_0" -> 0 [] v = "state_1" -> 1 [] v = "state_2" -> 2
      [] v = "state" -> 3 [] v = "state_0x" -> 4 [] v = "state_1x" -> 5
      [] v = "state_2x" -> 6

\* a device pointer is <<owner, array>>: the object that allocated the array
RePtr(v) == <<v, "real_part">>
ImPtr(v) == <<v, "imag_part">>

OperatorArrays == {"neighbor_number", "neighbor_list", "potential",
                   "hopping_real", "hopping_imag", "xx"}

(* ------------------- the lattice model (host side) -------------------- *)

\* displacement of neighbour slot m on a ring: +1, -1, +2, -2, ...
Step(m) == IF m % 2 = 0 THEN m \div 2 + 1 ELSE -((m + 1) \div 2)

\* spectral bound, hopping amplitude, onsite strength and asymmetry of data
\* set `seed`
EnergyMax(seed) == 1 + (seed % 2)
HopRe(seed) == 1 + (seed % 2)
HopIm(seed) == -(seed % 3)
Skew(seed) == seed \div 2
Onsite(seed) == (seed + 1) \div 2

\* The host descriptor of a ring of N sites: slot m of site n is the edge to
\* site n + Step(m); edge tables are laid out slot * N + site.  `deg` and
\* `ragged` set the neighbour counts; with Skew = 0 an edge and its reverse
\* carry conjugate amplitudes.
RingModel(N, deg, ragged, seed) ==
    [number_of_atoms |-> N,
     max_neighbor    |-> MaxNeighbor,
     energy_max      |-> R(EnergyMax(seed)),
     neighbor_number |-> [n \in 0..(N - 1) |->
                             (deg + ragged * n) % (MaxNeighbor + 1)],
     neighbor_list   |-> [i \in 0..(N * MaxNeighbor - 1) |->
                             ((i % N) + Step(i \div N) + N * MaxNeighbor) % N],
     potential       |-> [n \in 0..(N - 1) |-> R(Onsite(seed) * (n + 1))],
     hopping_real    |-> [i \in 0..(N * MaxNeighbor - 1) |->
                             R(HopRe(seed) + Skew(seed) * (i % N))],
     hopping_imag    |-> [i \in 0..(N * MaxNeighbor - 1) |->
                             R((IF (i \div N) % 2 = 0 THEN HopIm(seed)
                                                       ELSE -HopIm(seed))
                               + Skew(seed) * (i \div N))],
     xx              |-> [i \in 0..(N * MaxNeighbor - 1) |->
                             R(Step(i \div N) * (1 + Skew(seed) * (i % N)))]]

\* contents of vector v in data set `seed`
VecRe(v, n, seed) == R((((VecIndex(v) + 1) * (n + 1) + seed) % 5) - 2)
VecIm(v, n, seed) == R((((VecIndex(v) + 2) * (n + 2) + 2 * seed) % 7) - 3)

(* --------------------------- construction ----------------------------- *)

\* Hamiltonian::Hamiltonian(Model&): the fields of the new object
Hamiltonian(model) ==
    [n               |-> model.number_of_atoms,
     energy_max      |-> model.energy_max,
     grid_size       |-> (model.number_of_atoms - 1) \div BLOCK_SIZE + 1,
     neighbor_number |-> <<"H", "neighbor_number">>,
     neighbor_list   |-> <<"H", "neighbor_list">>,
     potential       |-> <<"H", "potential">>,
     hopping_real    |-> <<"H", "hopping_real">>,
     hopping_imag    |-> <<"H", "hopping_imag">>,
     xx              |-> <<"H", "xx">>]

\* ... and the device arrays it allocates and fills from the model
HamiltonianArrays(model) ==
    [p \in {<<"H", a>> : a \in OperatorArrays} |-> model[p[2]]]

\* Vector::Vector: two buffers of n reals each
Vector(v) == [real_part |-> RePtr(v), imag_part |-> ImPtr(v)]

VectorArrays(N, seed) ==
    [p \in {RePtr(v) : v \in VecNames} \cup {ImPtr(v) : v \in VecNames} |->
        [n \in 0..(N - 1) |->
            IF p[2] = "real_part" THEN VecRe(p[1], n, seed)
                                  ELSE VecIm(p[1], n, seed)]]

\* the dispatch's threads: <<blockIdx.x, threadIdx.x>>
Threads(grid_size) == (0..(grid_size - 1)) \X (0..(BLOCK_SIZE - 1))

\* a thread's locals before it runs, with the log of the cells it loads
NoTmp == [temp_real |-> R0, temp_imag |-> R0,
          temp_x_real |-> R0, temp_x_imag |-> R0, rd |-> {}]

(* ------------------- device memory seen by a thread ------------------- *)

\* a store by a thread: the memory after it, and the cell logged as written
St(m, p, i, v) ==
    [mem |-> [m.mem EXCEPT ![p][i] = v], rd |-> m.rd,
     wr |-> m.wr \cup {<<p, i>>}]

\* the cells a thread loads, logged as read
Ld(m, cells) == [m EXCEPT !.rd = @ \cup cells]

\* the index without the block offset
GlobalIndex_noblock(th) == th[2]

\* int n = blockIdx.x * blockDim.x + threadIdx.x;
GlobalIndex(th) == th[1] * BLOCK_SIZE + th[2]

(* ----------------------- gpu_apply_hamiltonian ------------------------ *)

\* the loop body with the sign of b * c in the imaginary part reversed
gpu_apply_hamiltonian_body_sign(mem, k, n, m, t) ==
    LET index_1 == m * k.number_of_atoms + n
        index_2 == mem[k.g_neighbor_list][index_1]
        a == mem[k.g_hopping_real][index_1]
        b == mem[k.g_hopping_imag][index_1]
        c == mem[k.g_state_in_real][index_2]
        d == mem[k.g_state_in_imag][index_2]
    IN  [t EXCEPT
           !.temp_real = RAdd(@, RSub(RMul(a, c), RMul(b, d))),
           !.temp_imag = RAdd(@, RSub(RMul(a, d), RMul(b, c))),
           !.rd = @ \cup {<<k.g_neighbor_list, index_1>>,
                          <<k.g_hopping_real, index_1>>,
                          <<k.g_hopping_imag, index_1>>,
                          <<k.g_state_in_real, index_2>>,
                          <<k.g_state_in_imag, index_2>>}]

\* the loop body with the edge tables addressed site * max_neighbor + slot
gpu_apply_hamiltonian_body_rowmajor(mem, k, n, m, t) ==
    LET index_1 == n * MaxNeighbor + m
        index_2 == mem[k.g_neighbor_list][index_1]
        a == mem[k.g_hopping_real][index_1]
        b == mem[k.g_hopping_imag][index_1]
        c == mem[k.g_state_in_real][index_2]
        d == mem[k.g_state_in_imag][index_2]
    IN  [t EXCEPT
           !.temp_real = RAdd(@, RSub(RMul(a, c), RMul(b, d))),
           !.temp_imag = RAdd(@, RAdd(RMul(a, d), RMul(b, c))),
           !.rd = @ \cup {<<k.g_neighbor_list, index_1>>,
                          <<k.g_hopping_real, index_1>>,
                          <<k.g_hopping_imag, index_1>>,
                          <<k.g_state_in_real, index_2>>,
                          <<k.g_state_in_imag, index_2>>}]

\* one pass of the loop over the neighbour slots
gpu_apply_hamiltonian_body(mem, k, n, m, t) ==
    LET index_1 == m * k.number_of_atoms + n
        index_2 == mem[k.g_neighbor_list][index_1]
        a == mem[k.g_hopping_real][index_1]
        b == mem[k.g_hopping_imag][index_1]
        c == mem[k.g_state_in_real][index_2]
        d == mem[k.g_state_in_imag][index_2]
    IN  [t EXCEPT
           !.temp_real = RAdd(@, RSub(RMul(a, c), RMul(b, d))),
           !.temp_imag = RAdd(@, RAdd(RMul(a, d), RMul(b, c))),
           !.rd = @ \cup {<<k.g_neighbor_list, index_1>>,
                          <<k.g_hopping_real, index_1>>,
                          <<k.g_hopping_imag, index_1>>,
                          <<k.g_state_in_real, index_2>>,
                          <<k.g_state_in_imag, index_2>>}]

RECURSIVE gpu_apply_hamiltonian_loop(_, _, _, _, _)
gpu_apply_hamiltonian_loop(mem, k, n, m, t) ==
    LET t1 == [t EXCEPT !.rd = @ \cup {<<k.g_neighbor_number, n>>}]
    IN  IF m < mem[k.g_neighbor_number][n]
        THEN gpu_apply_hamiltonian_loop(mem, k, n, m + 1,
                 gpu_apply_hamiltonian_body(mem, k, n, m, t1))
        ELSE t1

\* the loads of thread n and the value it computes
gpu_apply_hamiltonian_load(mem, k, n) ==
    LET t0 == [NoTmp EXCEPT
                 !.temp_real = RMul(mem[k.g_potential][n],
                                    mem[k.g_state_in_real][n]),
                 !.temp_imag = RMul(mem[k.g_potential][n],
                                    mem[k.g_state_in_imag][n]),
                 !.rd = {<<k.g_potential, n>>, <<k.g_state_in_real, n>>,
                           <<k.g_state_in_imag, n>>}]
        t1 == gpu_apply_hamiltonian_loop(mem, k, n, 0, t0)
    IN  [t1 EXCEPT !.temp_real = RDiv(@, k.energy_max),
                   !.temp_imag = RDiv(@, k.energy_max)]

\* the stores of thread n
gpu_apply_hamiltonian_store(m, k, n, t) ==
    LET m1 == St(m, k.g_state_out_real, n, t.temp_real)
    IN  St(m1, k.g_state_out_imag, n, t.temp_imag)

(* ------------------------ gpu_apply_commutator ------------------------ *)

gpu_apply_commutator_body(mem, k, n, m, t) ==
    LET index_1 == m * k.number_of_atoms + n
        index_2 == mem[k.g_neighbor_list][index_1]
        a == mem[k.g_hopping_real][index_1]
        b == mem[k.g_hopping_imag][index_1]
        c == mem[k.g_state_in_real][index_2]
        d == mem[k.g_state_in_imag][index_2]
        xx == mem[k.g_xx][index_1]
    IN  [t EXCEPT
           !.temp_real = RSub(@, RMul(RSub(RMul(a, c), RMul(b, d)), xx)),
           !.temp_imag = RSub(@, RMul(RAdd(RMul(a, d), RMul(b, c)), xx)),
           !.rd = @ \cup {<<k.g_neighbor_list, index_1>>,
                          <<k.g_hopping_real, index_1>>,
                          <<k.g_hopping_imag, index_1>>,
                          <<k.g_state_in_real, index_2>>,
                          <<k.g_state_in_imag, index_2>>,
                          <<k.g_xx, index_1>>}]

RECURSIVE gpu_apply_commutator_loop(_, _, _, _, _)
gpu_apply_commutator_loop(mem, k, n, m, t) ==
    LET t1 == [t EXCEPT !.rd = @ \cup {<<k.g_neighbor_number, n>>}]
    IN  IF m < mem[k.g_neighbor_number][n]
        THEN gpu_apply_commutator_loop(mem, k, n, m + 1,
                 gpu_apply_commutator_body(mem, k, n, m, t1))
        ELSE t1

gpu_apply_commutator_load(mem, k, n) ==
    gpu_apply_commutator_loop(mem, k, n, 0, NoTmp)

\* the stores without the division by energy_max
gpu_apply_commutator_store_noscale(m, k, n, t) ==
    LET m1 == St(m, k.g_state_out_real, n, t.temp_real)
    IN  St(m1, k.g_state_out_imag, n, t.temp_imag)

gpu_apply_commutator_store(m, k, n, t) ==
    LET m1 == St(m, k.g_state_out_real, n, RDiv(t.temp_real, k.energy_max))
    IN  St(m1, k.g_state_out_imag, n, RDiv(t.temp_imag, k.energy_max))

(* -------------------------- gpu_apply_current ------------------------- *)

gpu_apply_current_body(mem, k, n, m, t) ==
    LET index_1 == m * k.number_of_atoms + n
        index_2 == mem[k.g_neighbor_list][index_1]
        a == mem[k.g_hopping_real][index_1]
        b == mem[k.g_hopping_imag][index_1]
        c == mem[k.g_state_in_real][index_2]
        d == mem[k.g_state_in_imag][index_2]
    IN  [t EXCEPT
           !.temp_real = RAdd(@, RMul(RSub(RMul(a, c), RMul(b, d)),
                                      mem[k.g_xx][index_1])),
           !.temp_imag = RAdd(@, RMul(RAdd(RMul(a, d), RMul(b, c)),
                                      mem[k.g_xx][index_1])),
           !.rd = @ \cup {<<k.g_neighbor_list, index_1>>,
                          <<k.g_hopping_real, index_1>>,
                          <<k.g_hopping_imag, index_1>>,
                          <<k.g_state_in_real, index_2>>,
                          <<k.g_state_in_imag, index_2>>,
                          <<k.g_xx, index_1>>}]

RECURSIVE gpu_apply_current_loop(_, _, _, _, _)
gpu_apply_current_loop(mem, k, n, m, t) ==
    LET t1 == [t EXCEPT !.rd = @ \cup {<<k.g_neighbor_number, n>>}]
    IN  IF m < mem[k.g_neighbor_number][n]
        THEN gpu_apply_current_loop(mem, k, n, m + 1,
                 gpu_apply_current_body(mem, k, n, m, t1))
        ELSE t1

gpu_apply_current_load(mem, k, n) ==
    gpu_apply_current_loop(mem, k, n, 0, NoTmp)

gpu_apply_current_store(m, k, n, t) ==
    LET m1 == St(m, k.g_state_out_real, n, t.temp_imag)
    IN  St(m1, k.g_state_out_imag, n, RNeg(t.temp_real))

(* --------------------------- gpu_chebyshev_01 ------------------------- *)

\* the thread has no local state before its two assignments
gpu_chebyshev_01_load(mem, k, n) == NoTmp

\* the two assignments written as += on the accumulator
gpu_chebyshev_01_store_accumulate(m, k, n, t) ==
    LET bessel_0 == k.b0
        bessel_1 == RMul(k.b1, R(k.direction))
        m1 == St(Ld(m, {<<k.g_state_0_real, n>>, <<k.g_state_1_imag, n>>,
                        <<k.g_state_real, n>>}),
                 k.g_state_real, n,
                 RAdd(m.mem[k.g_state_real][n],
                      RAdd(RMul(bessel_0, m.mem[k.g_state_0_real][n]),
                           RMul(bessel_1, m.mem[k.g_state_1_imag][n]))))
    IN  St(Ld(m1, {<<k.g_state_0_imag, n>>, <<k.g_state_1_real, n>>,
                   <<k.g_state_imag, n>>}),
           k.g_state_imag, n,
           RAdd(m1.mem[k.g_state_imag][n],
                RSub(RMul(bessel_0, m1.mem[k.g_state_0_imag][n]),
                     RMul(bessel_1, m1.mem[k.g_state_1_real][n]))))

\* the two assignments, in order; each loads its operands when it runs
gpu_chebyshev_01_store(m, k, n, t) ==
    LET bessel_0 == k.b0
        bessel_1 == RMul(k.b1, R(k.direction))
        m1 == St(Ld(m, {<<k.g_state_0_real, n>>, <<k.g_state_1_imag, n>>}),
                 k.g_state_real, n,
                 RAdd(RMul(bessel_0, m.mem[k.g_state_0_real][n]),
                      RMul(bessel_1, m.mem[k.g_state_1_imag][n])))
    IN  St(Ld(m1, {<<k.g_state_0_imag, n>>, <<k.g_state_1_real, n>>}),
           k.g_state_imag, n,
           RSub(RMul(bessel_0, m1.mem[k.g_state_0_imag][n]),
                RMul(bessel_1, m1.mem[k.g_state_1_real][n])))

(* --------------------------- gpu_chebyshev_2 -------------------------- *)

gpu_chebyshev_2_body(mem, k, n, m, t) ==
    LET index_1 == m * k.number_of_atoms + n
        index_2 == mem[k.g_neighbor_list][index_1]
        a == mem[k.g_hopping_real][index_1]
        b == mem[k.g_hopping_imag][index_1]
        c == mem[k.g_state_1_real][index_2]
        d == mem[k.g_state_1_imag][index_2]
    IN  [t EXCEPT
           !.temp_real = RAdd(@, RSub(RMul(a, c), RMul(b, d))),
           !.temp_imag = RAdd(@, RAdd(RMul(a, d), RMul(b, c))),
           !.rd = @ \cup {<<k.g_neighbor_list, index_1>>,
                          <<k.g_hopping_real, index_1>>,
                          <<k.g_hopping_imag, index_1>>,
                          <<k.g_state_1_real, index_2>>,
                          <<k.g_state_1_imag, index_2>>}]

RECURSIVE gpu_chebyshev_2_loop(_, _, _, _, _)
gpu_chebyshev_2_loop(mem, k, n, m, t) ==
    LET t1 == [t EXCEPT !.rd = @ \cup {<<k.g_neighbor_number, n>>}]
    IN  IF m < mem[k.g_neighbor_number][n]
        THEN gpu_chebyshev_2_loop(mem, k, n, m + 1,
                 gpu_chebyshev_2_body(mem, k, n, m, t1))
        ELSE t1

gpu_chebyshev_2_load(mem, k, n) ==
    LET t0 == [NoTmp EXCEPT
                 !.temp_real = RMul(mem[k.g_potential][n],
                                    mem[k.g_state_1_real][n]),
                 !.temp_imag = RMul(mem[k.g_potential][n],
                                    mem[k.g_state_1_imag][n]),
                 !.rd = {<<k.g_potential, n>>, <<k.g_state_1_real, n>>,
                           <<k.g_state_1_imag, n>>}]
        t1 == gpu_chebyshev_2_loop(mem, k, n, 0, t0)
    IN  [t1 EXCEPT
           !.temp_real = RSub(RMul(R(2), RDiv(@, k.energy_max)),
                              mem[k.g_state_0_real][n]),
           !.temp_imag = RSub(RMul(R(2), RDiv(@, k.energy_max)),
                              mem[k.g_state_0_imag][n]),
           !.rd = @ \cup {<<k.g_state_0_real, n>>, <<k.g_state_0_imag, n>>}]

\* the switch with a default case that accumulates like case 1
gpu_chebyshev_2_switch_default(m, k, n, t) ==
    LET re == m.mem[k.g_state_real][n]
        im == m.mem[k.g_state_imag][n]
        b == k.bessel_m
        put(x, y) == St(St(m, k.g_state_real, n, x), k.g_state_imag, n, y)
    IN  CASE k.label = 2 -> put(RSub(re, RMul(b, t.temp_real)),
                                RSub(im, RMul(b, t.temp_imag)))
          [] k.label = 3 -> put(RAdd(re, RMul(b, t.temp_imag)),
                                RSub(im, RMul(b, t.temp_real)))
          [] k.label = 4 -> put(RSub(re, RMul(b, t.temp_imag)),
                                RAdd(im, RMul(b, t.temp_real)))
          [] OTHER -> put(RAdd(re, RMul(b, t.temp_real)),
                          RAdd(im, RMul(b, t.temp_imag)))

\* the switch with the signs of the rotated case 3 exchanged
gpu_chebyshev_2_switch_sign(m, k, n, t) ==
    LET re == m.mem[k.g_state_real][n]
        im == m.mem[k.g_state_imag][n]
        b == k.bessel_m
        put(x, y) == St(St(m, k.g_state_real, n, x), k.g_state_imag, n, y)
    IN  CASE k.label = 1 -> put(RAdd(re, RMul(b, t.temp_real)),
                                RAdd(im, RMul(b, t.temp_imag)))
          [] k.label = 2 -> put(RSub(re, RMul(b, t.temp_real)),
                                RSub(im, RMul(b, t.temp_imag)))
          [] k.label = 3 -> put(RSub(re, RMul(b, t.temp_imag)),
                                RAdd(im, RMul(b, t.temp_real)))
          [] k.label = 4 -> put(RSub(re, RMul(b, t.temp_imag)),
                                RAdd(im, RMul(b, t.temp_real)))
          [] OTHER -> m

\* switch (label): the accumulator update, one case per label
gpu_chebyshev_2_switch(m, k, n, t) ==
    LET re == m.mem[k.g_state_real][n]
        m0 == Ld(m, {<<k.g_state_real, n>>})
    IN  CASE k.label = 1 ->
               LET m1 == St(m0, k.g_state_real, n,
                            RAdd(re, RMul(k.bessel_m, t.temp_real)))
               IN  St(Ld(m1, {<<k.g_state_imag, n>>}), k.g_state_imag, n,
                      RAdd(m1.mem[k.g_state_imag][n],
                           RMul(k.bessel_m, t.temp_imag)))
          [] k.label = 2 ->
               LET m1 == St(m0, k.g_state_real, n,
                            RSub(re, RMul(k.bessel_m, t.temp_real)))
               IN  St(Ld(m1, {<<k.g_state_imag, n>>}), k.g_state_imag, n,
                      RSub(m1.mem[k.g_state_imag][n],
                           RMul(k.bessel_m, t.temp_imag)))
          [] k.label = 3 ->
               LET m1 == St(m0, k.g_state_real, n,
                            RAdd(re, RMul(k.bessel_m, t.temp_imag)))
               IN  St(Ld(m1, {<<k.g_state_imag, n>>}), k.g_state_imag, n,
                      RSub(m1.mem[k.g_state_imag][n],
                           RMul(k.bessel_m, t.temp_real)))
          [] k.label = 4 ->
               LET m1 == St(m0, k.g_state_real, n,
                            RSub(re, RMul(k.bessel_m, t.temp_imag)))
               IN  St(Ld(m1, {<<k.g_state_imag, n>>}), k.g_state_imag, n,
                      RAdd(m1.mem[k.g_state_imag][n],
                           RMul(k.bessel_m, t.temp_real)))
          [] OTHER -> m

gpu_chebyshev_2_store(m, k, n, t) ==
    LET m1 == gpu_chebyshev_2_switch(m, k, n, t)
        m2 == St(m1, k.g_state_2_real, n, t.temp_real)
    IN  St(m2, k.g_state_2_imag, n, t.temp_imag)

(* -------------------------- gpu_chebyshev_2x -------------------------- *)

gpu_chebyshev_2x_body(mem, k, n, m, t) ==
    LET index_1 == m * k.number_of_atoms + n
        index_2 == mem[k.g_neighbor_list][index_1]
        a == mem[k.g_hopping_real][index_1]
        b == mem[k.g_hopping_imag][index_1]
        c == mem[k.g_state_1_real][index_2]
        d == mem[k.g_state_1_imag][index_2]
        cx == mem[k.g_state_1x_real][index_2]
        dx == mem[k.g_state_1x_imag][index_2]
        xx == mem[k.g_xx][index_1]
    IN  [t EXCEPT
           !.temp_real = RAdd(@, RSub(RMul(a, c), RMul(b, d))),
           !.temp_imag = RAdd(@, RAdd(RMul(a, d), RMul(b, c))),
           !.temp_x_real = RSub(RAdd(@, RSub(RMul(a, cx), RMul(b, dx))),
                                RMul(RSub(RMul(a, c), RMul(b, d)), xx)),
           !.temp_x_imag = RSub(RAdd(@, RAdd(RMul(a, dx), RMul(b, cx))),
                                RMul(RAdd(RMul(a, d), RMul(b, c)), xx)),
           !.rd = @ \cup {<<k.g_neighbor_list, index_1>>,
                          <<k.g_hopping_real, index_1>>,
                          <<k.g_hopping_imag, index_1>>,
                          <<k.g_state_1_real, index_2>>,
                          <<k.g_state_1_imag, index_2>>,
                          <<k.g_state_1x_real, index_2>>,
                          <<k.g_state_1x_imag, index_2>>,
                          <<k.g_xx, index_1>>}]

RECURSIVE gpu_chebyshev_2x_loop(_, _, _, _, _)
gpu_chebyshev_2x_loop(mem, k, n, m, t) ==
    LET t1 == [t EXCEPT !.rd = @ \cup {<<k.g_neighbor_number, n>>}]
    IN  IF m < mem[k.g_neighbor_number][n]
        THEN gpu_chebyshev_2x_loop(mem, k, n, m + 1,
                 gpu_chebyshev_2x_body(mem, k, n, m, t1))
        ELSE t1

\* up to the first store (state_2): the loop, and the plain term
gpu_chebyshev_2x_load(mem, k, n) ==
    LET t0 == [temp_real   |-> RMul(mem[k.g_potential][n],
                                    mem[k.g_state_1_real][n]),
               temp_imag   |-> RMul(mem[k.g_potential][n],
                                    mem[k.g_state_1_imag][n]),
               temp_x_real |-> RMul(mem[k.g_potential][n],
                                    mem[k.g_state_1x_real][n]),
               temp_x_imag |-> RMul(mem[k.g_potential][n],
                                    mem[k.g_state_1x_imag][n]),
               rd |-> {<<k.g_potential, n>>,
                       <<k.g_state_1_real, n>>, <<k.g_state_1_imag, n>>,
                       <<k.g_state_1x_real, n>>, <<k.g_state_1x_imag, n>>}]
        t1 == gpu_chebyshev_2x_loop(mem, k, n, 0, t0)
    IN  [t1 EXCEPT
           !.temp_real = RSub(RMul(R(2), RDiv(@, k.energy_max)),
                              mem[k.g_state_0_real][n]),
           !.temp_imag = RSub(RMul(R(2), RDiv(@, k.energy_max)),
                              mem[k.g_state_0_imag][n]),
           !.rd = @ \cup {<<k.g_state_0_real, n>>, <<k.g_state_0_imag, n>>}]

\* switch (g_label): the accumulator update with the shadow term tx
gpu_chebyshev_2x_switch(m, k, n, tx) ==
    LET bessel_m == k.g_bessel_m
        re == m.mem[k.g_state_real][n]
        m0 == Ld(m, {<<k.g_state_real, n>>})
    IN  CASE k.g_label = 1 ->
               LET m1 == St(m0, k.g_state_real, n,
                            RAdd(re, RMul(bessel_m, tx.temp_x_real)))
               IN  St(Ld(m1, {<<k.g_state_imag, n>>}), k.g_state_imag, n,
                      RAdd(m1.mem[k.g_state_imag][n],
                           RMul(bessel_m, tx.temp_x_imag)))
          [] k.g_label = 2 ->
               LET m1 == St(m0, k.g_state_real, n,
                            RSub(re, RMul(bessel_m, tx.temp_x_real)))
               IN  St(Ld(m1, {<<k.g_state_imag, n>>}), k.g_state_imag, n,
                      RSub(m1.mem[k.g_state_imag][n],
                           RMul(bessel_m, tx.temp_x_imag)))
          [] k.g_label = 3 ->
               LET m1 == St(m0, k.g_state_real, n,
                            RAdd(re, RMul(bessel_m, tx.temp_x_imag)))
               IN  St(Ld(m1, {<<k.g_state_imag, n>>}), k.g_state_imag, n,
                      RSub(m1.mem[k.g_state_imag][n],
                           RMul(bessel_m, tx.temp_x_real)))
          [] k.g_label = 4 ->
               LET m1 == St(m0, k.g_state_real, n,
                            RSub(re, RMul(bessel_m, tx.temp_x_imag)))
               IN  St(Ld(m1, {<<k.g_state_imag, n>>}), k.g_state_imag, n,
                      RAdd(m1.mem[k.g_state_imag][n],
                           RMul(bessel_m, tx.temp_x_real)))
          [] OTHER -> m

\* the stores with the plain term, not the shadow term, accumulated
gpu_chebyshev_2x_store_plain(m, k, n, t) ==
    LET m1 == St(m, k.g_state_2_real, n, t.temp_real)
        m2 == Ld(St(m1, k.g_state_2_imag, n, t.temp_imag),
                 {<<k.g_state_0x_real, n>>, <<k.g_state_0x_imag, n>>})
        tx == [temp_x_real |->
                   RSub(RMul(R(2), RDiv(t.temp_x_real, k.energy_max)),
                        m2.mem[k.g_state_0x_real][n]),
               temp_x_imag |->
                   RSub(RMul(R(2), RDiv(t.temp_x_imag, k.energy_max)),
                        m2.mem[k.g_state_0x_imag][n])]
        m3 == St(m2, k.g_state_2x_real, n, tx.temp_x_real)
        m4 == St(m3, k.g_state_2x_imag, n, tx.temp_x_imag)
    IN  gpu_chebyshev_2x_switch(m4, k, n,
            [temp_x_real |-> t.temp_real, temp_x_imag |-> t.temp_imag])

\* the stores, in order: state_2, then the shadow term (which loads
\* state_0x only now) and state_2x, then the accumulator
gpu_chebyshev_2x_store(m, k, n, t) ==
    LET m1 == St(m, k.g_state_2_real, n, t.temp_real)
        m2 == Ld(St(m1, k.g_state_2_imag, n, t.temp_imag),
                 {<<k.g_state_0x_real, n>>, <<k.g_state_0x_imag, n>>})
        tx == [temp_x_real |->
                   RSub(RMul(R(2), RDiv(t.temp_x_real, k.energy_max)),
                        m2.mem[k.g_state_0x_real][n]),
               temp_x_imag |->
                   RSub(RMul(R(2), RDiv(t.temp_x_imag, k.energy_max)),
                        m2.mem[k.g_state_0x_imag][n])]
        m3 == St(m2, k.g_state_2x_real, n, tx.temp_x_real)
        m4 == St(m3, k.g_state_2x_imag, n, tx.temp_x_imag)
    IN  gpu_chebyshev_2x_switch(m4, k, n, tx)

(* ------------------------ gpu_kernel_polynomial ----------------------- *)

\* the loop body with the neighbour's value taken from the history vector
gpu_kernel_polynomial_body_history(mem, k, n, m, t) ==
    LET index_1 == m * k.number_of_atoms + n
        index_2 == mem[k.g_neighbor_list][index_1]
        a == mem[k.g_hopping_real][index_1]
        b == mem[k.g_hopping_imag][index_1]
        c == mem[k.g_state_0_real][index_2]
        d == mem[k.g_state_0_imag][index_2]
    IN  [t EXCEPT
           !.temp_real = RAdd(@, RSub(RMul(a, c), RMul(b, d))),
           !.temp_imag = RAdd(@, RAdd(RMul(a, d), RMul(b, c))),
           !.rd = @ \cup {<<k.g_neighbor_list, index_1>>,
                          <<k.g_hopping_real, index_1>>,
                          <<k.g_hopping_imag, index_1>>,
                          <<k.g_state_0_real, index_2>>,
                          <<k.g_state_0_imag, index_2>>}]

gpu_kernel_polynomial_body(mem, k, n, m, t) ==
    LET index_1 == m * k.number_of_atoms + n
        index_2 == mem[k.g_neighbor_list][index_1]
        a == mem[k.g_hopping_real][index_1]
        b == mem[k.g_hopping_imag][index_1]
        c == mem[k.g_state_1_real][index_2]
        d == mem[k.g_state_1_imag][index_2]
    IN  [t EXCEPT
           !.temp_real = RAdd(@, RSub(RMul(a, c), RMul(b, d))),
           !.temp_imag = RAdd(@, RAdd(RMul(a, d), RMul(b, c))),
           !.rd = @ \cup {<<k.g_neighbor_list, index_1>>,
                          <<k.g_hopping_real, index_1>>,
                          <<k.g_hopping_imag, index_1>>,
                          <<k.g_state_1_real, index_2>>,
                          <<k.g_state_1_imag, index_2>>}]

RECURSIVE gpu_kernel_polynomial_loop(_, _, _, _, _)
gpu_kernel_polynomial_loop(mem, k, n, m, t) ==
    LET t1 == [t EXCEPT !.rd = @ \cup {<<k.g_neighbor_number, n>>}]
    IN  IF m < mem[k.g_neighbor_number][n]
        THEN gpu_kernel_polynomial_loop(mem, k, n, m + 1,
                 gpu_kernel_polynomial_body(mem, k, n, m, t1))
        ELSE t1

\* the recurrence without the factor 2.0
gpu_kernel_polynomial_load_nodouble(mem, k, n) ==
    LET t0 == [NoTmp EXCEPT
                 !.temp_real = RMul(mem[k.g_potential][n],
                                    mem[k.g_state_1_real][n]),
                 !.temp_imag = RMul(mem[k.g_potential][n],
                                    mem[k.g_state_1_imag][n]),
                 !.rd = {<<k.g_potential, n>>, <<k.g_state_1_real, n>>,
                         <<k.g_state_1_imag, n>>}]
        t1 == gpu_kernel_polynomial_loop(mem, k, n, 0, t0)
    IN  [t1 EXCEPT
           !.temp_real = RSub(RDiv(@, k.energy_max), mem[k.g_state_0_real][n]),
           !.temp_imag = RSub(RDiv(@, k.energy_max), mem[k.g_state_0_imag][n]),
           !.rd = @ \cup {<<k.g_state_0_real, n>>, <<k.g_state_0_imag, n>>}]

gpu_kernel_polynomial_load(mem, k, n) ==
    LET t0 == [NoTmp EXCEPT
                 !.temp_real = RMul(mem[k.g_potential][n],
                                    mem[k.g_state_1_real][n]),
                 !.temp_imag = RMul(mem[k.g_potential][n],
                                    mem[k.g_state_1_imag][n]),
                 !.rd = {<<k.g_potential, n>>, <<k.g_state_1_real, n>>,
                           <<k.g_state_1_imag, n>>}]
        t1 == gpu_kernel_polynomial_loop(mem, k, n, 0, t0)
    IN  [t1 EXCEPT
           !.temp_real = RSub(RMul(R(2), RDiv(@, k.energy_max)),
                              mem[k.g_state_0_real][n]),
           !.temp_imag = RSub(RMul(R(2), RDiv(@, k.energy_max)),
                              mem[k.g_state_0_imag][n]),
           !.rd = @ \cup {<<k.g_state_0_real, n>>, <<k.g_state_0_imag, n>>}]

\* the stores with the real and imaginary channels exchanged
gpu_kernel_polynomial_store_swapped(m, k, n, t) ==
    LET m1 == St(m, k.g_state_2_real, n, t.temp_imag)
    IN  St(m1, k.g_state_2_imag, n, t.temp_real)

gpu_kernel_polynomial_store(m, k, n, t) ==
    LET m1 == St(m, k.g_state_2_real, n, t.temp_real)
    IN  St(m1, k.g_state_2_imag, n, t.temp_imag)

(* ------------------------- dispatch and threads ----------------------- *)

\* kernel<<<grid_size, BLOCK_SIZE>>>(k): every thread of the grid is ready
Dispatch(kernel, k) ==
    /\ launch' = [kernel |-> kernel, grid_size |-> H.grid_size, k |-> k]
    /\ pc' = [th \in Threads(H.grid_size) |-> "ready"]
    /\ tmp' = [th \in Threads(H.grid_size) |-> NoTmp]
    /\ rd' = [th \in Threads(H.grid_size) |-> {}]
    /\ wr' = [th \in Threads(H.grid_size) |-> {}]
    /\ pre' = dev
    /\ launches' = launches + 1
    /\ UNCHANGED <<dev, H, vec>>

KernelLoad(mem, l, n) ==
    CASE l.kernel = "gpu_apply_hamiltonian" ->
             gpu_apply_hamiltonian_load(mem, l.k, n)
      [] l.kernel = "gpu_apply_commutator" ->
             gpu_apply_commutator_load(mem, l.k, n)
      [] l.kernel = "gpu_apply_current" ->
             gpu_apply_current_load(mem, l.k, n)
      [] l.kernel = "gpu_chebyshev_01" ->
             gpu_chebyshev_01_load(mem, l.k, n)
      [] l.kernel = "gpu_chebyshev_2" ->
             gpu_chebyshev_2_load(mem, l.k, n)
      [] l.kernel = "gpu_chebyshev_2x" ->
             gpu_chebyshev_2x_load(mem, l.k, n)
      [] l.kernel = "gpu_kernel_polynomial" ->
             gpu_kernel_polynomial_load(mem, l.k, n)

KernelStore(m, l, n, t) ==
    CASE l.kernel = "gpu_apply_hamiltonian" ->
             gpu_apply_hamiltonian_store(m, l.k, n, t)
      [] l.kernel = "gpu_apply_commutator" ->
             gpu_apply_commutator_store(m, l.k, n, t)
      [] l.kernel = "gpu_apply_current" ->
             gpu_apply_current_store(m, l.k, n, t)
      [] l.kernel = "gpu_chebyshev_01" ->
             gpu_chebyshev_01_store(m, l.k, n, t)
      [] l.kernel = "gpu_chebyshev_2" ->
             gpu_chebyshev_2_store(m, l.k, n, t)
      [] l.kernel = "gpu_chebyshev_2x" ->
             gpu_chebyshev_2x_store(m, l.k, n, t)
      [] l.kernel = "gpu_kernel_polynomial" ->
             gpu_kernel_polynomial_store(m, l.k, n, t)

\* a thread inside the guard n < number_of_atoms computes its value
ThreadLoad(th) ==
    /\ pc[th] = "ready"
    /\ GlobalIndex(th) < launch.k.number_of_atoms
    /\ LET t == KernelLoad(dev, launch, GlobalIndex(th))
       IN  /\ tmp' = [tmp EXCEPT ![th] = t]
           /\ rd' = [rd EXCEPT ![th] = @ \cup t.rd]
    /\ pc' = [pc EXCEPT ![th] = "loaded"]
    /\ UNCHANGED <<dev, H, vec, launch, pre, wr, launches, host, order,
                   memVars>>

\* ... and stores it
ThreadStore(th) ==
    /\ pc[th] = "loaded"
    /\ LET m == KernelStore([mem |-> dev, rd |-> rd[th], wr |-> wr[th]],
                            launch, GlobalIndex(th), tmp[th])
       IN  /\ dev' = m.mem
           /\ rd' = [rd EXCEPT ![th] = m.rd]
           /\ wr' = [wr EXCEPT ![th] = m.wr]
    /\ pc' = [pc EXCEPT ![th] = "done"]
    /\ UNCHANGED <<H, vec, launch, tmp, pre, launches, host, order, memVars>>

\* a thread past the end of the lattice fails the guard and returns
ThreadExit(th) ==
    /\ pc[th] = "ready"
    /\ ~(GlobalIndex(th) < launch.k.number_of_atoms)
    /\ pc' = [pc EXCEPT ![th] = "done"]
    /\ UNCHANGED <<dev, H, vec, launch, tmp, pre, rd, wr, launches, host,
                   order, memVars>>

Load == \E th \in DOMAIN pc : ThreadLoad(th)
Store == \E th \in DOMAIN pc : ThreadStore(th)
Exit == \E th \in DOMAIN pc : ThreadExit(th)

AllDone == \A th \in DOMAIN pc : pc[th] = "done"

(* ------------------------ the wrapper functions ----------------------- *)

\* the arguments apply hands to gpu_apply_hamiltonian
apply_args(input, output) ==
    [number_of_atoms   |-> H.n,
     energy_max        |-> H.energy_max,
     g_neighbor_number |-> H.neighbor_number,
     g_neighbor_list   |-> H.neighbor_list,
     g_potential       |-> H.potential,
     g_hopping_real    |-> H.hopping_real,
     g_hopping_imag    |-> H.hopping_imag,
     g_state_in_real   |-> vec[input].real_part,
     g_state_in_imag   |-> vec[input].imag_part,
     g_state_out_real  |-> vec[output].real_part,
     g_state_out_imag  |-> vec[output].imag_part]

apply(input, output) ==
    Dispatch("gpu_apply_hamiltonian",
             apply_args(input, output))

\* the arguments apply_commutator hands to gpu_apply_commutator
apply_commutator_args(input, output) ==
    [number_of_atoms   |-> H.n,
     energy_max        |-> H.energy_max,
     g_neighbor_number |-> H.neighbor_number,
     g_neighbor_list   |-> H.neighbor_list,
     g_hopping_real    |-> H.hopping_real,
     g_hopping_imag    |-> H.hopping_imag,
     g_xx              |-> H.xx,
     g_state_in_real   |-> vec[input].real_part,
     g_state_in_imag   |-> vec[input].imag_part,
     g_state_out_real  |-> vec[output].real_part,
     g_state_out_imag  |-> vec[output].imag_part]

apply_commutator(input, output) ==
    Dispatch("gpu_apply_commutator",
             apply_commutator_args(input, output))

\* the arguments apply_current hands to gpu_apply_current
apply_current_args(input, output) ==
    [number_of_atoms   |-> H.n,
     g_neighbor_number |-> H.neighbor_number,
     g_neighbor_list   |-> H.neighbor_list,
     g_hopping_real    |-> H.hopping_real,
     g_hopping_imag    |-> H.hopping_imag,
     g_xx              |-> H.xx,
     g_state_in_real   |-> vec[input].real_part,
     g_state_in_imag   |-> vec[input].imag_part,
     g_state_out_real  |-> vec[output].real_part,
     g_state_out_imag  |-> vec[output].imag_part]

apply_current(input, output) ==
    Dispatch("gpu_apply_current",
             apply_current_args(input, output))

\* the arguments chebyshev_01 hands to gpu_chebyshev_01
chebyshev_01_args(state_0, state_1, state, bessel_0, bessel_1, direction) ==
    [number_of_atoms |-> H.n,
     g_state_0_real  |-> vec[state_0].real_part,
     g_state_0_imag  |-> vec[state_0].imag_part,
     g_state_1_real  |-> vec[state_1].real_part,
     g_state_1_imag  |-> vec[state_1].imag_part,
     g_state_real    |-> vec[state].real_part,
     g_state_imag    |-> vec[state].imag_part,
     b0              |-> bessel_0,
     b1              |-> bessel_1,
     direction       |-> direction]

chebyshev_01(state_0, state_1, state, bessel_0, bessel_1, direction) ==
    Dispatch("gpu_chebyshev_01",
             chebyshev_01_args(state_0, state_1, state, bessel_0, bessel_1, direction))

\* the arguments chebyshev_2 hands to gpu_chebyshev_2
chebyshev_2_args(state_0, state_1, state_2, state, bessel_m, label) ==
    [number_of_atoms   |-> H.n,
     energy_max        |-> H.energy_max,
     g_neighbor_number |-> H.neighbor_number,
     g_neighbor_list   |-> H.neighbor_list,
     g_potential       |-> H.potential,
     g_hopping_real    |-> H.hopping_real,
     g_hopping_imag    |-> H.hopping_imag,
     g_state_0_real    |-> vec[state_0].real_part,
     g_state_0_imag    |-> vec[state_0].imag_part,
     g_state_1_real    |-> vec[state_1].real_part,
     g_state_1_imag    |-> vec[state_1].imag_part,
     g_state_2_real    |-> vec[state_2].real_part,
     g_state_2_imag    |-> vec[state_2].imag_part,
     g_state_real      |-> vec[state].real_part,
     g_state_imag      |-> vec[state].imag_part,
     bessel_m          |-> bessel_m,
     label             |-> label]

chebyshev_2(state_0, state_1, state_2, state, bessel_m, label) ==
    Dispatch("gpu_chebyshev_2",
             chebyshev_2_args(state_0, state_1, state_2, state, bessel_m, label))

\* the arguments chebyshev_2x hands to gpu_chebyshev_2x
chebyshev_2x_args(state_0, state_0x, state_1, state_1x, state_2, state_2x, state, bessel_m, label) ==
    [number_of_atoms   |-> H.n,
     energy_max        |-> H.energy_max,
     g_neighbor_number |-> H.neighbor_number,
     g_neighbor_list   |-> H.neighbor_list,
     g_potential       |-> H.potential,
     g_hopping_real    |-> H.hopping_real,
     g_hopping_imag    |-> H.hopping_imag,
     g_xx              |-> H.xx,
     g_state_0_real    |-> vec[state_0].real_part,
     g_state_0_imag    |-> vec[state_0].imag_part,
     g_state_0x_real   |-> vec[state_0x].real_part,
     g_state_0x_imag   |-> vec[state_0x].imag_part,
     g_state_1_real    |-> vec[state_1].real_part,
     g_state_1_imag    |-> vec[state_1].imag_part,
     g_state_1x_real   |-> vec[state_1x].real_part,
     g_state_1x_imag   |-> vec[state_1x].imag_part,
     g_state_2_real    |-> vec[state_2].real_part,
     g_state_2_imag    |-> vec[state_2].imag_part,
     g_state_2x_real   |-> vec[state_2x].real_part,
     g_state_2x_imag   |-> vec[state_2x].imag_part,
     g_state_real      |-> vec[state].real_part,
     g_state_imag      |-> vec[state].imag_part,
     g_bessel_m        |-> bessel_m,
     g_label           |-> label]

chebyshev_2x(state_0, state_0x, state_1, state_1x, state_2, state_2x, state, bessel_m, label) ==
    Dispatch("gpu_chebyshev_2x",
             chebyshev_2x_args(state_0, state_0x, state_1, state_1x, state_2, state_2x, state, bessel_m, label))

\* the arguments kernel_polynomial hands to gpu_kernel_polynomial
kernel_polynomial_args(state_0, state_1, state_2) ==
    [number_of_atoms   |-> H.n,
     energy_max        |-> H.energy_max,
     g_neighbor_number |-> H.neighbor_number,
     g_neighbor_list   |-> H.neighbor_list,
     g_potential       |-> H.potential,
     g_hopping_real    |-> H.hopping_real,
     g_hopping_imag    |-> H.hopping_imag,
     g_state_0_real    |-> vec[state_0].real_part,
     g_state_0_imag    |-> vec[state_0].imag_part,
     g_state_1_real    |-> vec[state_1].real_part,
     g_state_1_imag    |-> vec[state_1].imag_part,
     g_state_2_real    |-> vec[state_2].real_part,
     g_state_2_imag    |-> vec[state_2].imag_part]

kernel_polynomial(state_0, state_1, state_2) ==
    Dispatch("gpu_kernel_polynomial",
             kernel_polynomial_args(state_0, state_1, state_2))

(* ---------------- one dispatch on an arbitrary lattice ----------------- *)

AliasIds == {"A", "B"}
NoObj == [status |-> "none"]

\* Bessel coefficients handed to the recursion steps
BesselVals == {R(3), <<-1, 2>>}
Labels == 0..MaxLabel
Directions == {1, -1}

\* the state after the operator and the seven vectors are constructed
Constructed(model, seed) ==
    /\ H = Hamiltonian(model)
    /\ dev = HamiltonianArrays(model)
               @@ VectorArrays(model.number_of_atoms, seed)
    /\ vec = [v \in VecNames |-> Vector(v)]
    /\ launch = NoLaunch
    /\ pc = [th \in Threads(H.grid_size) |-> "done"]
    /\ tmp = [th \in Threads(H.grid_size) |-> NoTmp]
    /\ rd = [th \in Threads(H.grid_size) |-> {}]
    /\ wr = [th \in Threads(H.grid_size) |-> {}]
    /\ pre = dev
    /\ launches = 0
    /\ allocated = DOMAIN dev
    /\ freeCalls = [p \in DOMAIN dev |-> 0]
    /\ obj = [o \in AliasIds |-> NoObj]

Init ==
    /\ \E N \in 1..MaxAtoms, deg \in 0..MaxNeighbor, ragged \in 0..1,
          seed \in 0..MaxSeed :
          Constructed(RingModel(N, deg, ragged, seed), seed)
    /\ host = "idle"
    /\ order = 0

CallApply ==
    /\ host = "idle"
    /\ apply("state_1", "state_2")
    /\ host' = "launched"
    /\ UNCHANGED <<order, memVars>>

CallApplyCommutator ==
    /\ host = "idle"
    /\ apply_commutator("state_1", "state_2")
    /\ host' = "launched"
    /\ UNCHANGED <<order, memVars>>

CallApplyCurrent ==
    /\ host = "idle"
    /\ apply_current("state_1", "state_2")
    /\ host' = "launched"
    /\ UNCHANGED <<order, memVars>>

CallChebyshev01 ==
    /\ host = "idle"
    /\ \E b0 \in BesselVals, direction \in Directions :
          chebyshev_01("state_0", "state_1", "state", b0, RAdd(b0, R(1)),
                       direction)
    /\ host' = "launched"
    /\ UNCHANGED <<order, memVars>>

CallChebyshev2 ==
    /\ host = "idle"
    /\ \E bessel_m \in BesselVals, label \in Labels :
          chebyshev_2("state_0", "state_1", "state_2", "state",
                      bessel_m, label)
    /\ host' = "launched"
    /\ UNCHANGED <<order, memVars>>

CallChebyshev2x ==
    /\ host = "idle"
    /\ \E bessel_m \in BesselVals, label \in Labels :
          chebyshev_2x("state_0", "state_0x", "state_1", "state_1x",
                       "state_2", "state_2x", "state", bessel_m, label)
    /\ host' = "launched"
    /\ UNCHANGED <<order, memVars>>

CallKernelPolynomial ==
    /\ host = "idle"
    /\ kernel_polynomial("state_0", "state_1", "state_2")
    /\ host' = "launched"
    /\ UNCHANGED <<order, memVars>>

\* the dispatch has run to completion
Sync ==
    /\ host = "launched"
    /\ AllDone
    /\ host' = "done"
    /\ UNCHANGED <<kernelVars, order, memVars>>

Next ==
    \/ CallApply
    \/ CallApplyCommutator
    \/ CallApplyCurrent
    \/ CallChebyshev01
    \/ CallChebyshev2
    \/ CallChebyshev2x
    \/ CallKernelPolynomial
    \/ Load
    \/ Store
    \/ Exit
    \/ Sync

Spec == Init /\ [][Next]_vars

(* ----------------- complex arithmetic of the contracts ---------------- *)

Cx(re, im) == [re |-> re, im |-> im]
C0 == Cx(R0, R0)
CAdd(z, w) == Cx(RAdd(z.re, w.re), RAdd(z.im, w.im))
CSub(z, w) == Cx(RSub(z.re, w.re), RSub(z.im, w.im))
CNeg(z) == Cx(RNeg(z.re), RNeg(z.im))
CMul(z, w) == Cx(RSub(RMul(z.re, w.re), RMul(z.im, w.im)),
                 RAdd(RMul(z.re, w.im), RMul(z.im, w.re)))
CConj(z) == Cx(z.re, RNeg(z.im))
\* a real multiple, and a real quotient, of z
CScale(r, z) == Cx(RMul(r, z.re), RMul(r, z.im))
COver(z, r) == Cx(RDiv(z.re, r), RDiv(z.im, r))
\* the 90-degree rotation (re, im) -> (im, -re)
Rot(z) == Cx(z.im, RNeg(z.re))

RECURSIVE CSum(_)
CSum(zs) == IF zs = <<>> THEN C0 ELSE CAdd(Head(zs), CSum(Tail(zs)))

\* amplitude n of vector v in memory mem
Val(mem, v, n) == Cx(mem[vec[v].real_part][n], mem[vec[v].imag_part][n])

Sites == 0..(H.n - 1)
\* the edge in slot m of site n: its table index, end site, amplitude, weight
Edge(m, n) == m * H.n + n
EdgeTo(mem, m, n) == mem[H.neighbor_list][Edge(m, n)]
EdgeHop(mem, m, n) ==
    Cx(mem[H.hopping_real][Edge(m, n)], mem[H.hopping_imag][Edge(m, n)])
EdgeXX(mem, m, n) == mem[H.xx][Edge(m, n)]
Degree(mem, n) == mem[H.neighbor_number][n]

\* sum over the edges of site n of hopping * x[neighbour]
HopSum(mem, x, n) ==
    CSum([j \in 1..Degree(mem, n) |->
             CMul(EdgeHop(mem, j - 1, n), Val(mem, x, EdgeTo(mem, j - 1, n)))])

\* ... and of hopping * x[neighbour] * edge scalar
HopSumXX(mem, x, n) ==
    CSum([j \in 1..Degree(mem, n) |->
             CScale(EdgeXX(mem, j - 1, n),
                    CMul(EdgeHop(mem, j - 1, n),
                         Val(mem, x, EdgeTo(mem, j - 1, n))))])

\* (H / energy_max) x at site n
HX(mem, x, n) ==
    COver(CAdd(CScale(mem[H.potential][n], Val(mem, x, n)), HopSum(mem, x, n)),
          H.energy_max)

\* the scaled commutator [X, H] x at site n
CommX(mem, x, n) == COver(CNeg(HopSumXX(mem, x, n)), H.energy_max)

\* the term 2 (H / energy_max) x1 - x0 of the three-term recurrence
Recurrence(mem, x0, x1, n) ==
    CSub(CScale(R(2), HX(mem, x1, n)), Val(mem, x0, n))

\* a term routed into the accumulator by the phase label
Routed(label, z) ==
    CASE label = 1 -> z
      [] label = 2 -> CNeg(z)
      [] label = 3 -> Rot(z)
      [] label = 4 -> CNeg(Rot(z))

\* the dispatch of kernel has completed
Completed(kernel) == host = "done" /\ launch.kernel = kernel

(* -------------------------------- C1 ---------------------------------- *)

\* C1: after apply(state_1, state_2) completes, every site n of the output
\* holds (potential[n] * input[n] + the sum over the slots m <
\* neighbor_number[n] of hopping[m*N+n] * input[neighbor_list[m*N+n]])
\* / energy_max, a complex multiply-accumulate over edge tables addressed
\* slot * N + site.
C1_ApplyContract ==
    Completed("gpu_apply_hamiltonian") =>
        \A n \in Sites : Val(dev, "state_2", n) = HX(pre, "state_1", n)

\* apply has completed on a lattice of several sites with a site that has
\* every slot filled, a non-zero potential and energy_max other than 1
C1_Witness ==
    /\ Completed("gpu_apply_hamiltonian")
    /\ H.n > BLOCK_SIZE
    /\ H.energy_max # R(1)
    /\ \E n \in Sites :
          /\ Degree(dev, n) = MaxNeighbor
          /\ dev[H.potential][n] # R0
          /\ HopSum(pre, "state_1", n) # C0
          /\ Val(dev, "state_2", n) # Val(pre, "state_2", n)

(* -------------------------------- C2 ---------------------------------- *)

\* C2: after chebyshev_2(state_0, state_1, state_2, state, bessel_m, label)
\* with a label in 1..4 completes, every site n of state_2 holds
\* 2 * apply(state_1)[n] - state_0[n], and the accumulator has changed by
\* exactly bessel_m times that term, routed by the label: 1 adds it,
\* 2 subtracts it, 3 adds its rotated form, 4 subtracts the rotated form.
C2_Chebyshev2Contract ==
    (Completed("gpu_chebyshev_2") /\ launch.k.label \in 1..4) =>
        \A n \in Sites :
            LET term == Recurrence(pre, "state_0", "state_1", n)
            IN  /\ Val(dev, "state_2", n) = term
                /\ Val(dev, "state", n) =
                       CAdd(Val(pre, "state", n),
                            Routed(launch.k.label,
                                   CScale(launch.k.bessel_m, term)))

\* chebyshev_2 has completed with a rotating label and a term whose real
\* and imaginary parts differ in size, so that each routing gives another
\* accumulator
C2_Witness ==
    /\ Completed("gpu_chebyshev_2")
    /\ launch.k.label = 3
    /\ H.n > BLOCK_SIZE
    /\ \E n \in Sites :
          LET term == Recurrence(pre, "state_0", "state_1", n)
          IN  /\ Degree(dev, n) = MaxNeighbor
              /\ term.re # R0 /\ term.im # R0
              /\ term.re # term.im /\ term.re # RNeg(term.im)
              /\ Val(pre, "state", n) # C0

(* -------------------------------- C3 ---------------------------------- *)

\* what thread n of dispatch l leaves in memory when it runs alone on mem
ThreadAlone(mem, l, n) ==
    KernelStore([mem |-> mem, rd |-> {}, wr |-> {}], l, n,
                KernelLoad(mem, l, n)).mem

CommutatorLaunch ==
    [kernel |-> "gpu_apply_commutator",
     k |-> apply_commutator_args("state_1", "state_2")]

CurrentLaunch ==
    [kernel |-> "gpu_apply_current",
     k |-> apply_current_args("state_1", "state_2")]

\* C3: on the same input, apply_current's output at every site is energy_max
\* times the rotation (re, im) -> (im, -re) of minus apply_commutator's
\* output; apply_commutator is minus the edge sum of hopping * input *
\* edge scalar over energy_max, with no onsite term, and apply_current is the
\* rotated edge sum with no division by energy_max.
C3_CurrentCommutatorIdentity ==
    /\ Completed("gpu_apply_current") =>
          \A n \in Sites :
             /\ Val(dev, "state_2", n) =
                   CScale(H.energy_max,
                          Rot(CNeg(Val(ThreadAlone(pre, CommutatorLaunch, n),
                                       "state_2", n))))
             /\ Val(dev, "state_2", n) = Rot(HopSumXX(pre, "state_1", n))
    /\ Completed("gpu_apply_commutator") =>
          \A n \in Sites :
             /\ Val(ThreadAlone(pre, CurrentLaunch, n), "state_2", n) =
                   CScale(H.energy_max, Rot(CNeg(Val(dev, "state_2", n))))
             /\ Val(dev, "state_2", n) = CommX(pre, "state_1", n)

\* apply_current has completed where the rescale and the onsite term would
\* show: energy_max is not 1, and a site with a non-zero potential and a
\* non-zero input has a non-zero weighted edge sum
C3_Witness ==
    /\ Completed("gpu_apply_current")
    /\ H.energy_max # R(1)
    /\ \E n \in Sites :
          /\ dev[H.potential][n] # R0
          /\ Val(pre, "state_1", n) # C0
          /\ HopSumXX(pre, "state_1", n) # C0
          /\ Val(dev, "state_2", n) # Val(pre, "state_2", n)

(* -------------------------------- C5 ---------------------------------- *)

\* the vectors a dispatch writes
OutputVectors(l) ==
    CASE l.kernel \in {"gpu_apply_hamiltonian", "gpu_apply_commutator",
                       "gpu_apply_current", "gpu_kernel_polynomial"} ->
             {"state_2"}
      [] l.kernel = "gpu_chebyshev_01" -> {"state"}
      [] l.kernel = "gpu_chebyshev_2" ->
             {"state_2"} \cup (IF l.k.label \in 1..4 THEN {"state"} ELSE {})
      [] l.kernel = "gpu_chebyshev_2x" ->
             {"state_2", "state_2x"}
                \cup (IF l.k.g_label \in 1..4 THEN {"state"} ELSE {})

\* slot n of both buffers of each vector in vs
Slots(vs, n) ==
    {<<vec[v].real_part, n>> : v \in vs} \cup {<<vec[v].imag_part, n>> : v \in vs}

\* memory after the threads n, n + 1, ... of dispatch l ran one after another
RECURSIVE InOrder(_, _, _)
InOrder(mem, l, n) ==
    IF n >= l.k.number_of_atoms THEN mem
    ELSE InOrder(ThreadAlone(mem, l, n), l, n + 1)

\* C5: in a dispatch with pairwise distinct vectors, the thread with global
\* index n writes only slot n of the output vectors, and nothing when n is
\* past the lattice; no cell a thread writes is read or written by another
\* thread; and the completed dispatch leaves memory as the threads run one
\* after another would, whatever the interleaving.
C5_ThreadsOwnTheirSlot ==
    launch # NoLaunch =>
        /\ \A th \in DOMAIN pc :
              /\ wr[th] \subseteq Slots(OutputVectors(launch), GlobalIndex(th))
              /\ GlobalIndex(th) >= H.n => wr[th] = {}
              /\ (pc[th] = "done" /\ GlobalIndex(th) < H.n) =>
                    wr[th] = Slots(OutputVectors(launch), GlobalIndex(th))
              /\ \A other \in DOMAIN pc \ {th} :
                    wr[th] \cap (rd[other] \cup wr[other]) = {}
        /\ host = "done" => dev = InOrder(pre, launch, 0)

\* a dispatch over two blocks has completed: threads of both blocks wrote,
\* one thread was past the lattice, and a thread read a slot of its
\* neighbour's input
C5_Witness ==
    /\ Completed("gpu_chebyshev_2x")
    /\ launch.grid_size = 2
    /\ \E th \in DOMAIN pc : GlobalIndex(th) >= H.n /\ pc[th] = "done"
    /\ \E a \in DOMAIN pc, b \in DOMAIN pc :
          /\ a[1] # b[1]
          /\ wr[a] # {} /\ wr[b] # {}
          /\ <<vec["state_1"].real_part, GlobalIndex(b)>> \in rd[a]

(* -------------------------------- C6 ---------------------------------- *)

Chebyshev2Launch(bessel_m, label) ==
    [kernel |-> "gpu_chebyshev_2",
     k |-> chebyshev_2_args("state_0", "state_1", "state_2", "state",
                            bessel_m, label)]

KernelPolynomialLaunch ==
    [kernel |-> "gpu_kernel_polynomial",
     k |-> kernel_polynomial_args("state_0", "state_1", "state_2")]

\* the arrays of the operator
OperatorPtrs ==
    {H.neighbor_number, H.neighbor_list, H.potential, H.hopping_real,
     H.hopping_imag, H.xx}

Buffers(vs) ==
    {vec[v].real_part : v \in vs} \cup {vec[v].imag_part : v \in vs}

\* C6: from the same state_0 and state_1, kernel_polynomial writes the
\* state_2 that chebyshev_2 writes, for every bessel_m and every label in
\* 1..4, and kernel_polynomial leaves state_0, state_1 and the operator
\* arrays as they were.
C6_KernelPolynomialIsBareStep ==
    /\ Completed("gpu_kernel_polynomial") =>
          \A n \in Sites, bessel_m \in BesselVals, label \in 1..4 :
             Val(dev, "state_2", n) =
                Val(ThreadAlone(pre, Chebyshev2Launch(bessel_m, label), n),
                    "state_2", n)
    /\ Completed("gpu_chebyshev_2") =>
          \A n \in Sites :
             Val(dev, "state_2", n) =
                Val(ThreadAlone(pre, KernelPolynomialLaunch, n), "state_2", n)
    /\ launch.kernel = "gpu_kernel_polynomial" =>
          \A p \in OperatorPtrs \cup Buffers({"state_0", "state_1"}) :
             dev[p] = pre[p]

\* kernel_polynomial has completed on a lattice with edges and has changed
\* state_2 at a site where state_0 is not zero
C6_Witness ==
    /\ Completed("gpu_kernel_polynomial")
    /\ H.n > BLOCK_SIZE
    /\ \E n \in Sites :
          /\ Degree(dev, n) = MaxNeighbor
          /\ Val(pre, "state_0", n) # C0
          /\ HX(pre, "state_1", n) # C0
          /\ Val(dev, "state_2", n) # Val(pre, "state_2", n)

(* -------------------------------- C8 ---------------------------------- *)

\* the cells of the arrays in ps
Cells(ps) == {<<q, i>> : q \in ps, i \in 0..(H.n * MaxNeighbor - 1)}

\* C8: chebyshev_01(state_0, state_1, state, b0, b1, direction) overwrites
\* the accumulator: state[n].re = b0 * state_0[n].re + (b1 * direction) *
\* state_1[n].im and state[n].im = b0 * state_0[n].im - (b1 * direction) *
\* state_1[n].re; no thread reads the accumulator or an operator array, and
\* state_0 and state_1 stay as they were.
C8_Chebyshev01Contract ==
    launch.kernel = "gpu_chebyshev_01" =>
        /\ host = "done" =>
              \A n \in Sites :
                 LET b0 == launch.k.b0
                     b1d == RMul(launch.k.b1, R(launch.k.direction))
                     s0 == Val(pre, "state_0", n)
                     s1 == Val(pre, "state_1", n)
                 IN  /\ Val(dev, "state", n).re =
                           RAdd(RMul(b0, s0.re), RMul(b1d, s1.im))
                     /\ Val(dev, "state", n).im =
                           RSub(RMul(b0, s0.im), RMul(b1d, s1.re))
        /\ \A th \in DOMAIN pc :
              rd[th] \cap Cells(OperatorPtrs \cup Buffers({"state"})) = {}
        /\ \A p \in Buffers({"state_0", "state_1"}) : dev[p] = pre[p]

\* chebyshev_01 has completed with direction -1 at a site whose accumulator
\* held a non-zero real part, with both terms of the new real part non-zero
C8_Witness ==
    /\ Completed("gpu_chebyshev_01")
    /\ launch.k.direction = -1
    /\ H.n > BLOCK_SIZE
    /\ \E n \in Sites :
          /\ Val(pre, "state", n).re # R0
          /\ Val(pre, "state_0", n).re # R0
          /\ Val(pre, "state_1", n).im # R0
          /\ Val(dev, "state", n).re # Val(pre, "state", n).re

(* -------------------------------- C9 ---------------------------------- *)

\* C9: after chebyshev_2x with a label in 1..4 completes, state_2 holds
\* 2 * apply(state_1) - state_0, the value chebyshev_2 writes; state_2x
\* holds 2 * (apply(state_1x) + apply_commutator(state_1)) - state_0x; and
\* the accumulator has changed by bessel_m times state_2x routed by the
\* label as in chebyshev_2, with nothing of state_2 in it.
C9_Chebyshev2xContract ==
    (Completed("gpu_chebyshev_2x") /\ launch.k.g_label \in 1..4) =>
        \A n \in Sites :
            LET shadow == CSub(CScale(R(2), CAdd(HX(pre, "state_1x", n),
                                                 CommX(pre, "state_1", n))),
                               Val(pre, "state_0x", n))
                bulk == Chebyshev2Launch(launch.k.g_bessel_m, launch.k.g_label)
            IN  /\ Val(dev, "state_2", n) =
                       Recurrence(pre, "state_0", "state_1", n)
                /\ Val(dev, "state_2", n) =
                       Val(ThreadAlone(pre, bulk, n), "state_2", n)
                /\ Val(dev, "state_2x", n) = shadow
                /\ Val(dev, "state", n) =
                       CAdd(Val(pre, "state", n),
                            Routed(launch.k.g_label,
                                   CScale(launch.k.g_bessel_m, shadow)))

\* chebyshev_2x has completed with a rotating label where the shadow term
\* differs from the plain term and the commutator part is not zero
C9_Witness ==
    /\ Completed("gpu_chebyshev_2x")
    /\ launch.k.g_label = 4
    /\ H.n > BLOCK_SIZE
    /\ \E n \in Sites :
          /\ Degree(dev, n) = MaxNeighbor
          /\ CommX(pre, "state_1", n) # C0
          /\ HX(pre, "state_1x", n) # C0
          /\ Val(dev, "state_2x", n) # Val(dev, "state_2", n)
          /\ Val(dev, "state_2x", n).re # R0 /\ Val(dev, "state_2x", n).im # R0

(* -------------------------------- C11 --------------------------------- *)

Chebyshev2xLaunch(bessel_m, label) ==
    [kernel |-> "gpu_chebyshev_2x",
     k |-> chebyshev_2x_args("state_0", "state_0x", "state_1", "state_1x",
                             "state_2", "state_2x", "state", bessel_m, label)]

\* C11: with a label outside 1..4, chebyshev_2 and chebyshev_2x never write
\* the accumulator state, which keeps its value at every site, while
\* state_2 (and state_2x for chebyshev_2x) receive the recurrence outputs;
\* the completed chebyshev_2 leaves all of memory exactly as
\* kernel_polynomial on the same state_0, state_1, state_2 would.
C11_OtherLabelLeavesAccumulator ==
    /\ (launch.kernel = "gpu_chebyshev_2" /\ launch.k.label \notin 1..4) =>
          /\ \A p \in Buffers({"state"}) : dev[p] = pre[p]
          /\ \A th \in DOMAIN pc, n \in Sites :
                Slots({"state"}, n) \cap wr[th] = {}
          /\ host = "done" =>
                /\ dev = InOrder(pre, KernelPolynomialLaunch, 0)
                /\ \A n \in Sites :
                      Val(dev, "state_2", n) =
                         Recurrence(pre, "state_0", "state_1", n)
    /\ (launch.kernel = "gpu_chebyshev_2x" /\ launch.k.g_label \notin 1..4) =>
          /\ \A p \in Buffers({"state"}) : dev[p] = pre[p]
          /\ \A th \in DOMAIN pc, n \in Sites :
                Slots({"state"}, n) \cap wr[th] = {}
          /\ host = "done" =>
                \A n \in Sites :
                   /\ Val(dev, "state_2", n) =
                         Recurrence(pre, "state_0", "state_1", n)
                   /\ Val(dev, "state_2x", n) =
                         CSub(CScale(R(2), CAdd(HX(pre, "state_1x", n),
                                                CommX(pre, "state_1", n))),
                              Val(pre, "state_0x", n))
                   /\ Val(dev, "state_2x", n) =
                         Val(ThreadAlone(pre, Chebyshev2xLaunch(R(3), 1), n),
                             "state_2x", n)

\* chebyshev_2 has completed with a label past 4 and a non-zero bessel_m on
\* a lattice of two blocks, at a site where the term is not zero (so that
\* any accumulation would have changed state) and state_2 has changed
C11_Witness ==
    /\ Completed("gpu_chebyshev_2")
    /\ launch.k.label > 4
    /\ launch.k.bessel_m # R0
    /\ H.n > BLOCK_SIZE
    /\ \A n \in Sites : Val(dev, "state", n) = Val(pre, "state", n)
    /\ \E n \in Sites :
          /\ Degree(dev, n) = MaxNeighbor
          /\ Recurrence(pre, "state_0", "state_1", n) # C0
          /\ Val(pre, "state", n) # C0
          /\ Val(dev, "state_2", n) # Val(pre, "state_2", n)

(* ------------- ownership of the operator's device arrays -------------- *)

\* the arrays the caller of the aliasing constructor owns: those of H
CallerArrays == {<<"H", a>> : a \in OperatorArrays}

NullPtr == <<"null", "null">>
\* an address that is no allocation of the program
WildPtr == <<"wild", "wild">>

\* what an uninitialized pointer member can hold
Garbage == DOMAIN dev \cup {NullPtr, WildPtr}

\* Hamiltonian::Hamiltonian(neighbor_number, ..., model, xx): the fields of
\* the new object.  xx is assigned only if the argument is not null;
\* otherwise the member keeps whatever its storage held (junk).
HamiltonianAlias(neighbor_number, neighbor_list, potential, hopping_real, hopping_imag, xx, junk) ==
    [status          |-> "alive",
     used            |-> FALSE,
     neighbor_number |-> neighbor_number,
     neighbor_list   |-> neighbor_list,
     potential       |-> potential,
     hopping_real    |-> hopping_real,
     hopping_imag    |-> hopping_imag,
     xx              |-> IF xx # NullPtr THEN xx ELSE junk,
     n               |-> H.n,
     energy_max      |-> H.energy_max,
     grid_size       |-> (H.n - 1) \div BLOCK_SIZE + 1]

\* the caller builds aliasing operator o over its arrays, with or without xx
ConstructAlias(o) ==
    /\ obj[o].status = "none"
    /\ host = "idle"
    /\ CallerArrays \subseteq allocated
    /\ \E xx \in {H.xx, NullPtr}, junk \in Garbage :
          /\ xx # NullPtr => junk = NullPtr
          /\ obj' = [obj EXCEPT ![o] =
                HamiltonianAlias(H.neighbor_number, H.neighbor_list,
                                 H.potential, H.hopping_real, H.hopping_imag,
                                 xx, junk)]
    /\ UNCHANGED <<kernelVars, host, order, allocated, freeCalls>>

\* an operation of o: a kernel dispatch, which allocates and frees nothing
Operate(o) ==
    /\ obj[o].status = "alive"
    /\ ~obj[o].used
    /\ obj' = [obj EXCEPT ![o].used = TRUE]
    /\ UNCHANGED <<kernelVars, host, order, allocated, freeCalls>>

\* cudaFree of each pointer of the sequence ps, in order; a null pointer is
\* ignored, a wild one is no allocation of the program
RECURSIVE cudaFreeAll(_, _)
cudaFreeAll(heap, ps) ==
    IF ps = <<>> THEN heap
    ELSE LET p == Head(ps)
         IN  cudaFreeAll(
                 IF p \in DOMAIN heap.freeCalls
                 THEN [allocated |-> heap.allocated \ {p},
                       freeCalls |-> [heap.freeCalls EXCEPT ![p] = @ + 1]]
                 ELSE heap,
                 Tail(ps))

\* Hamiltonian::~Hamiltonian: the six cudaFree calls
Destructor(heap, h) ==
    cudaFreeAll(heap, <<h.neighbor_number, h.neighbor_list, h.potential,
                        h.hopping_real, h.hopping_imag, h.xx>>)

\* the aliasing operator o is destroyed
Destroy(o) ==
    /\ obj[o].status = "alive"
    /\ LET heap == Destructor([allocated |-> allocated,
                               freeCalls |-> freeCalls], obj[o])
       IN  /\ allocated' = heap.allocated
           /\ freeCalls' = heap.freeCalls
    /\ obj' = [obj EXCEPT ![o].status = "destroyed"]
    /\ UNCHANGED <<kernelVars, host, order>>

\* the caller releases its arrays: the owning operator H is destroyed
CallerRelease ==
    /\ host = "idle"
    /\ LET heap == Destructor([allocated |-> allocated,
                               freeCalls |-> freeCalls], H)
       IN  /\ allocated' = heap.allocated
           /\ freeCalls' = heap.freeCalls
    /\ host' = "released"
    /\ UNCHANGED <<kernelVars, order, obj>>

InitMem ==
    /\ Constructed(RingModel(2, MaxNeighbor, 0, 0), 0)
    /\ host = "idle"
    /\ order = 0

NextMem ==
    \/ \E o \in AliasIds : ConstructAlias(o)
    \/ \E o \in AliasIds : Operate(o)
    \/ \E o \in AliasIds : Destroy(o)
    \/ CallerRelease

SpecMem == InitMem /\ [][NextMem]_vars

(* -------------------------------- C4 ---------------------------------- *)

\* C4: an aliasing Hamiltonian never frees the arrays it was given: until
\* the caller releases them they stay allocated, whatever aliasing operators
\* were constructed, used and destroyed, and no array is released twice,
\* neither by the caller's later release nor by the destruction of two
\* aliasing operators over the same arrays.
C4_AliasNeverFrees ==
    /\ host = "idle" => CallerArrays \subseteq allocated
    /\ \A p \in CallerArrays : freeCalls[p] <= 1

(* ---------- the kernel-polynomial driver on the 2-site chain ---------- *)

\* Vector::swap: the two vectors exchange their buffers
swap(a, b) ==
    /\ vec' = [vec EXCEPT ![a] = vec[b], ![b] = vec[a]]
    /\ UNCHANGED <<dev, H, launch, pc, tmp, pre, rd, wr, launches>>

\* the 2-site chain: each site has the other as its single neighbour,
\* hopping 1, zero onsite potential, energy_max 1
ChainModel == RingModel(2, 1, 0, 0)

\* unit vectors on two sites
UnitVectors ==
    {<<Cx(R(1), R0), C0>>, <<C0, Cx(R(1), R0)>>,
     <<Cx(R0, R(1)), C0>>, <<C0, Cx(R0, R(-1))>>,
     <<Cx(R(-1), R0), C0>>,
     <<Cx(<<3, 5>>, R0), Cx(<<4, 5>>, R0)>>,
     <<Cx(<<3, 5>>, R0), Cx(R0, <<-4, 5>>)>>,
     <<Cx(R0, <<4, 5>>), Cx(<<-3, 5>>, R0)>>}

\* memory with vector v holding the amplitudes zs
Filled(mem, v, zs) ==
    [mem EXCEPT ![RePtr(v)] = [n \in DOMAIN @ |-> zs[n + 1].re],
                ![ImPtr(v)] = [n \in DOMAIN @ |-> zs[n + 1].im]]

\* state_0 holds T_0, a unit vector; state_0x keeps a copy of it
InitKPM ==
    /\ \E T0 \in UnitVectors, seed \in 0..MaxSeed :
          /\ H = Hamiltonian(ChainModel)
          /\ dev = Filled(Filled(HamiltonianArrays(ChainModel)
                                   @@ VectorArrays(2, seed),
                                 "state_0", T0), "state_0x", T0)
    /\ vec = [v \in VecNames |-> Vector(v)]
    /\ launch = NoLaunch
    /\ pc = [th \in Threads(H.grid_size) |-> "done"]
    /\ tmp = [th \in Threads(H.grid_size) |-> NoTmp]
    /\ rd = [th \in Threads(H.grid_size) |-> {}]
    /\ wr = [th \in Threads(H.grid_size) |-> {}]
    /\ pre = dev
    /\ launches = 0
    /\ allocated = DOMAIN dev
    /\ freeCalls = [p \in DOMAIN dev |-> 0]
    /\ obj = [o \in AliasIds |-> NoObj]
    /\ host = "start"
    /\ order = 0

\* T_1 = apply(T_0)
KpmApply ==
    /\ host = "start"
    /\ apply("state_0", "state_1")
    /\ host' = "apply"
    /\ UNCHANGED <<order, memVars>>

KpmApplied ==
    /\ host = "apply"
    /\ AllDone
    /\ host' = "loop"
    /\ order' = 1
    /\ UNCHANGED <<kernelVars, memVars>>

KpmKernelPolynomial ==
    /\ host = "loop"
    /\ order < MaxOrder
    /\ kernel_polynomial("state_0", "state_1", "state_2")
    /\ host' = "kernel_polynomial"
    /\ UNCHANGED <<order, memVars>>

\* the dispatch is complete: state_0.swap(state_1)
KpmSwap01 ==
    /\ host = "kernel_polynomial"
    /\ AllDone
    /\ swap("state_0", "state_1")
    /\ host' = "swap"
    /\ UNCHANGED <<order, memVars>>

\* state_1.swap(state_2): the repetition is over
KpmSwap12 ==
    /\ host = "swap"
    /\ swap("state_1", "state_2")
    /\ host' = "loop"
    /\ order' = order + 1
    /\ UNCHANGED memVars

\* the chain fills its single block: no thread is past its end
NextKPM ==
    \/ KpmApply
    \/ KpmApplied
    \/ KpmKernelPolynomial
    \/ KpmSwap01
    \/ KpmSwap12
    \/ Load
    \/ Store

SpecKPM == InitKPM /\ [][NextKPM]_vars

(* -------------------------------- C7 ---------------------------------- *)

\* T_k(1) and T_k(-1)
ChebyshevAtPlus(j) == R(1)
ChebyshevAtMinus(j) == IF j % 2 = 0 THEN R(1) ELSE R(-1)

\* T_j(H) v at site n for the chain's Hamiltonian, whose eigenvalues are
\* +1 and -1 with eigenvectors (1, 1) and (1, -1): the part of v along each
\* eigenvector times the Chebyshev polynomial of its eigenvalue
ChebyshevOfChain(j, v, n) ==
    LET plus == COver(CAdd(v[n + 1], v[(1 - n) + 1]), R(2))
        minus == COver(CSub(v[n + 1], v[(1 - n) + 1]), R(2))
    IN  CAdd(CScale(ChebyshevAtPlus(j), plus),
             CScale(ChebyshevAtMinus(j), minus))

\* the T_0 the driver started from
KpmT0 == <<Val(dev, "state_0x", 0), Val(dev, "state_0x", 1)>>

\* C7: on the 2-site chain, from T_0 a unit vector and T_1 = apply(T_0),
\* after each repetition of kernel_polynomial, state_0.swap(state_1),
\* state_1.swap(state_2) the vector state_1 holds T_order(H) T_0 and state_0
\* holds T_(order-1)(H) T_0, for every order up to MaxOrder.
C7_ChainChebyshev ==
    host = "loop" =>
        \A n \in Sites :
            /\ Val(dev, "state_1", n) = ChebyshevOfChain(order, KpmT0, n)
            /\ Val(dev, "state_0", n) = ChebyshevOfChain(order - 1, KpmT0, n)

\* the driver has produced the highest order from a T_0 with amplitude on
\* both sites
C7_Witness ==
    /\ host = "loop"
    /\ order = MaxOrder
    /\ H.n = 2 /\ H.energy_max = R(1)
    /\ \A n \in Sites :
          /\ Degree(dev, n) = 1
          /\ EdgeTo(dev, 0, n) = 1 - n
          /\ EdgeHop(dev, 0, n) = Cx(R(1), R0)
          /\ dev[H.potential][n] = R0
    /\ launches = MaxOrder
    /\ Val(dev, "state_0x", 0) # C0
    /\ Val(dev, "state_0x", 1) # C0
    /\ Val(dev, "state_1", 0) # Val(dev, "state_0", 0)

(* ------------------- inner products of x and H y ---------------------- *)

\* the sites block b of the grid covers
BlockSites(b) == {n \in Sites : n \div BLOCK_SIZE = b}

RECURSIVE CSumOver(_, _)
\* the sum of F[n] over the finite set S of integers, smallest first
CSumOver(F, S) ==
    IF S = {} THEN C0
    ELSE LET n == CHOOSE i \in S : \A j \in S : i <= j
         IN  CAdd(F[n], CSumOver(F, S \ {n}))

\* Vector::inner_product_1: block b leaves its partial sum of
\* conj(self) * other in target[offset + b]
inner_product_1(self, other, target, offset) ==
    /\ dev' = [dev EXCEPT
          ![vec[target].real_part] =
              [i \in DOMAIN @ |->
                  IF i - offset \in 0..(H.grid_size - 1)
                  THEN CSumOver([n \in Sites |->
                                    CMul(CConj(Val(dev, self, n)),
                                         Val(dev, other, n))],
                                BlockSites(i - offset)).re
                  ELSE @[i]],
          ![vec[target].imag_part] =
              [i \in DOMAIN @ |->
                  IF i - offset \in 0..(H.grid_size - 1)
                  THEN CSumOver([n \in Sites |->
                                    CMul(CConj(Val(dev, self, n)),
                                         Val(dev, other, n))],
                                BlockSites(i - offset)).im
                  ELSE @[i]]]
    /\ UNCHANGED <<H, vec, launch, pc, tmp, pre, rd, wr, launches>>

\* Vector::inner_product_2: the partial sums held by self are added up into
\* the leading slot of target
inner_product_2(self, target) ==
    /\ LET total == CSumOver([b \in 0..(H.grid_size - 1) |-> Val(dev, self, b)],
                             0..(H.grid_size - 1))
       IN  dev' = [dev EXCEPT ![vec[target].real_part][0] = total.re,
                              ![vec[target].imag_part][0] = total.im]
    /\ UNCHANGED <<H, vec, launch, pc, tmp, pre, rd, wr, launches>>

\* the amplitudes of the edges from site i to site j
EdgesFromTo(mem, i, j, h) ==
    {m \in 0..(Degree(mem, i) - 1) :
        EdgeTo(mem, m, i) = j /\ EdgeHop(mem, m, i) = h}

\* the edge table is Hermitian: the edges i -> j with amplitude h pair off
\* with the edges j -> i with amplitude conj(h) (the potential is real)
HermitianTable(mem) ==
    \A i \in Sites : \A m \in 0..(Degree(mem, i) - 1) :
        LET j == EdgeTo(mem, m, i)
            h == EdgeHop(mem, m, i)
        IN  Cardinality(EdgesFromTo(mem, i, j, h))
               = Cardinality(EdgesFromTo(mem, j, i, CConj(h)))

\* x is state_0 and y is state_1, on any lattice of the family whose edge
\* table is Hermitian
InitHerm ==
    /\ \E N \in 1..MaxAtoms, deg \in 0..MaxNeighbor, ragged \in 0..1,
          seed \in 0..MaxSeed, data \in 0..MaxSeed :
          Constructed(RingModel(N, deg, ragged, seed), data)
    /\ HermitianTable(dev)
    /\ host = "start"
    /\ order = 0

\* H y into state_2
HermApplyY ==
    /\ host = "start"
    /\ apply("state_1", "state_2")
    /\ host' = "apply_y"
    /\ UNCHANGED <<order, memVars>>

\* H x into state_0x
HermApplyX ==
    /\ host = "apply_y"
    /\ AllDone
    /\ apply("state_0", "state_0x")
    /\ host' = "apply_x"
    /\ UNCHANGED <<order, memVars>>

\* <x, H y>: its partial sums into state
HermXHy1 ==
    /\ host = "apply_x"
    /\ AllDone
    /\ inner_product_1("state_0", "state_2", "state", 0)
    /\ host' = "x_hy"
    /\ UNCHANGED <<order, memVars>>

\* ... and their total into state_2x
HermXHy2 ==
    /\ host = "x_hy"
    /\ inner_product_2("state", "state_2x")
    /\ host' = "x_hy_done"
    /\ UNCHANGED <<order, memVars>>

\* <H x, y>: its partial sums into state
HermHxY1 ==
    /\ host = "x_hy_done"
    /\ inner_product_1("state_0x", "state_1", "state", 0)
    /\ host' = "hx_y"
    /\ UNCHANGED <<order, memVars>>

\* ... and their total into state_1x
HermHxY2 ==
    /\ host = "hx_y"
    /\ inner_product_2("state", "state_1x")
    /\ host' = "done"
    /\ UNCHANGED <<order, memVars>>

NextHerm ==
    \/ HermApplyY
    \/ HermApplyX
    \/ HermXHy1
    \/ HermXHy2
    \/ HermHxY1
    \/ HermHxY2
    \/ Load
    \/ Store
    \/ Exit

SpecHerm == InitHerm /\ [][NextHerm]_vars

(* -------------------------------- C10 --------------------------------- *)

\* C10 as stated: for an operator with a Hermitian edge table and all x, y,
\* the inner product sum_i conj(x_i) * apply(y)_i is the complex conjugate
\* of sum_i conj(apply(x)_i) * y_i.
C10_Original ==
    host = "done" =>
        Val(dev, "state_2x", 0) = CConj(Val(dev, "state_1x", 0))

\* C10 amended: for an operator with a Hermitian edge table and all x, y,
\* the inner product sum_i conj(x_i) * apply(y)_i equals
\* sum_i conj(apply(x)_i) * y_i itself, with no conjugation.
C10_ApplyIsHermitian ==
    host = "done" =>
        Val(dev, "state_2x", 0) = Val(dev, "state_1x", 0)

\* both inner products are done on a lattice of two blocks with complex
\* hopping amplitudes, and <x, H y> is neither real nor imaginary
C10_Witness ==
    /\ host = "done"
    /\ H.grid_size = 2
    /\ \E n \in Sites : Degree(dev, n) = MaxNeighbor /\ EdgeHop(dev, 0, n).im # R0
    /\ Val(dev, "state_2x", 0).re # R0
    /\ Val(dev, "state_2x", 0).im # R0


(* ------------- the recurrence written over its history slot ------------ *)

\* kernel_polynomial(state_0, state_1, state_0): the output is state_0
CallKernelPolynomialInPlace ==
    /\ host = "idle"
    /\ kernel_polynomial("state_0", "state_1", "state_0")
    /\ host' = "launched"
    /\ UNCHANGED <<order, memVars>>

NextInPlace ==
    \/ CallKernelPolynomialInPlace
    \/ Load
    \/ Store
    \/ Exit
    \/ Sync

SpecInPlace == Init /\ [][NextInPlace]_vars

(* -------------------------------- C12 --------------------------------- *)

\* the dispatch in flight is kernel_polynomial with state_0 as its output
InPlaceLaunch ==
    /\ launch.kernel = "gpu_kernel_polynomial"
    /\ launch.k.g_state_2_real = vec["state_0"].real_part
    /\ launch.k.g_state_2_imag = vec["state_0"].imag_part
    /\ launch.k.g_state_1_real = vec["state_1"].real_part

\* C12: in kernel_polynomial(state_0, state_1, state_0) the thread of site n
\* reads and writes state_0 at slot n only and reads other slots from
\* state_1 only, so no cell a thread writes is read or written by another
\* thread; state_1 stays as it was; and under every interleaving the
\* completed dispatch leaves state_0[n] = 2 * apply(state_1)[n] - the old
\* state_0[n], the value a separate output vector state_2 would receive.
C12_InPlaceRecurrence ==
    InPlaceLaunch =>
        /\ \A th \in DOMAIN pc :
              /\ wr[th] \subseteq Slots({"state_0"}, GlobalIndex(th))
              /\ rd[th] \cap Cells(Buffers({"state_0"}))
                    \subseteq Slots({"state_0"}, GlobalIndex(th))
              /\ \A other \in DOMAIN pc \ {th} :
                    wr[th] \cap (rd[other] \cup wr[other]) = {}
        /\ \A p \in Buffers({"state_1", "state_2"}) : dev[p] = pre[p]
        /\ host = "done" =>
              \A n \in Sites :
                 /\ Val(dev, "state_0", n) =
                       Recurrence(pre, "state_0", "state_1", n)
                 /\ Val(dev, "state_0", n) =
                       Val(InOrder(pre, KernelPolynomialLaunch, 0),
                           "state_2", n)

\* the in-place dispatch has completed over two blocks, at a site with every
\* slot filled whose neighbour is another site, where the old state_0 of
\* both sites was not zero and both have changed
C12_Witness ==
    /\ InPlaceLaunch
    /\ host = "done"
    /\ H.n > BLOCK_SIZE
    /\ \E n \in Sites :
          /\ Degree(dev, n) = MaxNeighbor
          /\ HopSum(pre, "state_1", n) # C0
          /\ Val(pre, "state_0", n) # C0
          /\ Val(dev, "state_0", n) # Val(pre, "state_0", n)
          /\ \E m \in 0..(MaxNeighbor - 1) :
                LET j == EdgeTo(dev, m, n)
                IN  /\ j # n
                    /\ Val(pre, "state_0", j) # C0
                    /\ Val(dev, "state_0", j) # Val(pre, "state_0", j)
                    /\ Val(pre, "state_0", j) # Val(pre, "state_1", j)

====
